---- MODULE Spec2Model ----
(***************************************************************************)
(* Engagement scoring of jpaine/engaged-papers.                            *)
(*                                                                         *)
(* The scoring library (normalize, computeEngagementScore,                 *)
(* computeEngagementScoresForDate) is the second file of                   *)
(* src/app/api/papers/route.ts, lines 104-286.                             *)
(*                                                                         *)
(* Numbers.  The code computes in IEEE doubles; the model computes in      *)
(* exact rationals, a pair <<numerator, denominator>> in lowest terms with *)
(* a positive denominator, so that equality of scores is equality of       *)
(* pairs.  Rounding is not modelled.                                       *)
(*                                                                         *)
(* Time.  Timestamps (published_at, the clock read by new Date()) are      *)
(* counted in ticks of HoursPerTick hours since an origin that falls on    *)
(* midnight of the server's time zone.  Snapshot dates are counted in days *)
(* from today.                                                             *)
(*                                                                         *)
(* Specifications.  Spec: one batch scored and rescored.  SpecNormalize:   *)
(* normalize on its own.  SpecPair: the same papers and counts scored      *)
(* twice.  SpecFetch: lib/semantic.ts.  SpecDiff: GET /api/diff.  SpecGet: *)
(* GET /api/papers.  SpecRecalc, SpecConcurrent: one and two runs of       *)
(* computeEngagementScoresForDate on the store.  SpecIngest: the ingestion *)
(* and the citation backfill at once.  SpecOrder: the same batch returned  *)
(* in any order.  SpecFetchFair: SpecFetch under the scheduling of the     *)
(* runtime.  SpecIngestAlone: one ingestion, no store failure.             *)
(* SpecBackfillRecalc: the backfill and a recalculation at once.           *)
(* SpecOverlap: two ingestions at once.  Each group of specifications has  *)
(* its own variables; the variables of the others keep their idle values.  *)
(***************************************************************************)
EXTENDS Integers, Sequences, FiniteSets, TLC

\* ---------------------------------------------------------------- bounds
MaxLen == 3          \* rows of one snapshot date
MaxCite == 10        \* largest citation count of a row
MaxPub == 2          \* latest published_at, in ticks
FirstNow == 1        \* earliest clock value, in ticks
MaxNow == 2          \* latest clock value, in ticks
HoursPerTick == 12   \* granularity of time
NormRange == 3       \* normalize is called on the integers -NormRange..NormRange
PairLen == 2         \* papers of a batch that is scored twice
MaxIds == 3          \* arXiv ids handed to fetchCitationCountsBatch
MaxBatchSize == 2    \* its batchSize is 1..MaxBatchSize
MaxMetrics == 13     \* rows of paper_metrics when /api/diff is requested
DaysInWindow == 7    \* last7d
MaxSnapshots == 2    \* paper_metrics rows of one paper
MaxRows == 2         \* paper_metrics rows of the snapshot date in the store
today == 0           \* the snapshot date asked for, in days

\* ------------------------------------------------------ program constants
HoursPerDay == 24    \* "/ 24" of the recency formula
Absent == -1         \* published_at: paperDateMap.get(m.paper_id) || null

\* -------------------------------------------------------------- rationals
Abs(x) == IF x < 0 THEN -x ELSE x

RECURSIVE GCD(_, _)
GCD(a, b) == IF b = 0 THEN a ELSE GCD(b, a % b)

\* n / d in lowest terms, d # 0
Frac(n, d) ==
  LET s == IF d < 0 THEN -1 ELSE 1
      g == GCD(Abs(n), Abs(d))
  IN  <<(s * n) \div g, (s * d) \div g>>

Num(n) == <<n, 1>>
Zero == <<0, 1>>
One == <<1, 1>>
RSub(a, b) == Frac(a[1] * b[2] - b[1] * a[2], a[2] * b[2])
RDiv(a, b) == Frac(a[1] * b[2], a[2] * b[1])
RLess(a, b) == a[1] * b[2] < b[1] * a[2]
RLeq(a, b) == a[1] * b[2] <= b[1] * a[2]

\* Math.min(...xs) and Math.max(...xs) over a non-empty set of rationals
RMin(S) == CHOOSE x \in S : \A y \in S : RLeq(x, y)
RMax(S) == CHOOSE x \in S : \A y \in S : RLeq(y, x)

\* ------------------------------------------------------------- normalize
\* Variants of normalize with a slip in the formula.
\* value / (max - min): the shift by min forgotten
normalize_unshifted(value, min, max) ==
  IF max = Zero \/ max = min
  THEN Zero
  ELSE RDiv(value, RSub(max, min))

\* (max - value) / (max - min): the scale reversed
normalize_reversed(value, min, max) ==
  IF max = Zero \/ max = min
  THEN Zero
  ELSE RDiv(RSub(max, value), RSub(max, min))

\* (value - min) / (max - min + 1): a smoothed denominator
normalize_smoothed(value, min, max) ==
  IF max = Zero \/ max = min
  THEN Zero
  ELSE RDiv(RSub(value, min), RSub(RSub(max, min), Num(-1)))

\* the test max === 0 forgotten
normalize_zeroMaxUnchecked(value, min, max) ==
  IF max = min
  THEN Zero
  ELSE RDiv(RSub(value, min), RSub(max, min))

normalize(value, min, max) ==
  IF max = Zero \/ max = min
  THEN Zero
  ELSE RDiv(RSub(value, min), RSub(max, min))

\* ------------------------------------------------- computeEngagementScore
\* A row of metricsWithDates: the paper_metrics row with published_at attached.
\* Scoring reads no other field of the row; github_repo_count is passed to
\* computeEngagementScore and never read by it.
Metric(downloads_7d, published_at) ==
  [downloads_7d |-> downloads_7d, github_repo_count |-> 0,
   published_at |-> published_at]

downloads7dCounts(allMetrics) == {allMetrics[i].downloads_7d : i \in DOMAIN allMetrics}

IntMin(S) == CHOOSE x \in S : \A y \in S : x <= y
IntMax(S) == CHOOSE x \in S : \A y \in S : y <= x

\* Math.min(...downloads7dCounts): the floor at 0 forgotten
minDownloads_unfloored(allMetrics) == IntMin(downloads7dCounts(allMetrics))

\* Math.min(...downloads7dCounts, 0)
minDownloads(allMetrics) == IntMin(downloads7dCounts(allMetrics) \cup {0})

\* Math.max(...downloads7dCounts, 0)
maxDownloads(allMetrics) == IntMax(downloads7dCounts(allMetrics) \cup {0})

\* Math.max(0, (now.getTime() - publishedDate.getTime()) / (1000 * 60 * 60))
hoursSincePublished(published_at, clock) ==
  IF clock > published_at THEN (clock - published_at) * HoursPerTick ELSE 0

\* 1 / (1 + hoursSincePublished / 24), and 0 for a row without published_at
recencyScore(published_at, clock) ==
  IF published_at = Absent
  THEN Zero
  ELSE Frac(HoursPerDay, HoursPerDay + hoursSincePublished(published_at, clock))

\* d.getHours() + d.getMinutes() / 60; a row without published_at stands in
\* publishedDates as new Date(0), the origin
hourOfDay(published_at) ==
  IF published_at = Absent
  THEN 0
  ELSE (published_at * HoursPerTick) % HoursPerDay

\* allMetrics.findIndex(m => m.downloads_7d === downloads7d): the index (from 0)
\* of the first row with that count, -1 when there is none
findIndex(allMetrics, downloads7d) ==
  LET hits == {i \in DOMAIN allMetrics : allMetrics[i].downloads_7d = downloads7d}
  IN  IF hits = {} THEN -1 ELSE IntMin(hits) - 1

\* 1 - index / max(1, n - 1): the guard on a batch of one row forgotten
positionalScore_unguarded(allMetrics, downloads7d) ==
  LET paperIndex == findIndex(allMetrics, downloads7d)
      last == IF Len(allMetrics) > 1 THEN Len(allMetrics) - 1 ELSE 1
  IN  IF paperIndex >= 0
      THEN RSub(One, Frac(paperIndex, last))
      ELSE Zero

\* "use index as tiebreaker" (lines 186-189) and the final fallback
\* (lines 195-200), which are the same computation
positionalScore(allMetrics, downloads7d) ==
  LET paperIndex == findIndex(allMetrics, downloads7d)
  IN  IF paperIndex >= 0 /\ Len(allMetrics) > 1
      THEN RSub(One, Frac(paperIndex, Len(allMetrics) - 1))
      ELSE Zero

\* The body after the primary path: recency, time of day, position.
recencyFallback(downloads7d, allMetrics, clock) ==
  LET recencyScores == {recencyScore(allMetrics[i].published_at, clock) : i \in DOMAIN allMetrics}
      paperIndex == findIndex(allMetrics, downloads7d)
      \* allMetrics.find(m => m.downloads_7d === downloads7d)
      currentPublishedAt ==
        IF paperIndex >= 0 THEN allMetrics[paperIndex + 1].published_at ELSE Absent
      currentRecency == recencyScore(currentPublishedAt, clock)
      minRecency == RMin(recencyScores)
      maxRecency == RMax(recencyScores)
      allHours == {hourOfDay(allMetrics[i].published_at) : i \in DOMAIN allMetrics}
      minHours == IntMin(allHours)
      maxHours == IntMax(allHours)
  IN  IF Len(allMetrics) > 0 /\ RLess(Zero, maxRecency) /\ currentPublishedAt # Absent
      THEN IF RLess(minRecency, maxRecency)
           THEN normalize(currentRecency, minRecency, maxRecency)
           ELSE IF maxHours > minHours
                THEN normalize(Num(hourOfDay(currentPublishedAt)), Num(minHours), Num(maxHours))
                ELSE positionalScore(allMetrics, downloads7d)
      ELSE positionalScore(allMetrics, downloads7d)

\* The blend 0.6 * normalize(downloads_7d) + 0.4 * normalize(github_repo_count)
\* in place of the citation share.
computeEngagementScore_weighted(downloads7d, githubRepoCount, allMetrics, publishedAt, clock) ==
  LET minD == minDownloads(allMetrics)
      maxD == maxDownloads(allMetrics)
      repos == {allMetrics[i].github_repo_count : i \in DOMAIN allMetrics}
      share == normalize(Num(downloads7d), Num(minD), Num(maxD))
      repoShare == normalize(Num(githubRepoCount), Num(IntMin(repos \cup {0})),
                             Num(IntMax(repos \cup {0})))
  IN  IF maxD > 0
      THEN Frac(6 * share[1] * repoShare[2] + 4 * repoShare[1] * share[2],
                10 * share[2] * repoShare[2])
      ELSE recencyFallback(downloads7d, allMetrics, clock)

\* recency consulted before the citation counts
computeEngagementScore_recencyFirst(downloads7d, githubRepoCount, allMetrics, publishedAt, clock) ==
  LET minD == minDownloads(allMetrics)
      maxD == maxDownloads(allMetrics)
  IN  IF maxD > 0 /\ \A i \in DOMAIN allMetrics : allMetrics[i].published_at = Absent
      THEN normalize(Num(downloads7d), Num(minD), Num(maxD))
      ELSE recencyFallback(downloads7d, allMetrics, clock)

\* a batch whose counts are all equal is taken to carry no citation signal and
\* goes to the fallback
computeEngagementScore_constantFallsBack(downloads7d, githubRepoCount, allMetrics, publishedAt, clock) ==
  LET minD == minDownloads(allMetrics)
      maxD == maxDownloads(allMetrics)
  IN  IF maxD > 0 /\ IntMin(downloads7dCounts(allMetrics)) # maxD
      THEN normalize(Num(downloads7d), Num(minD), Num(maxD))
      ELSE recencyFallback(downloads7d, allMetrics, clock)

\* computeEngagementScore(downloads7d, githubRepoCount, allMetrics, publishedAt),
\* with the clock it reads (const now = new Date()) as the last parameter.
\* The body reads neither githubRepoCount nor publishedAt.
computeEngagementScore(downloads7d, githubRepoCount, allMetrics, publishedAt, clock) ==
  LET minD == minDownloads(allMetrics)
      maxD == maxDownloads(allMetrics)
  IN  IF maxD > 0
      THEN normalize(Num(downloads7d), Num(minD), Num(maxD))
      ELSE recencyFallback(downloads7d, allMetrics, clock)

\* ---------------------------------------- computeEngagementScoresForDate
\* The comparator of metricsWithDates.sort: 0 when either row has no
\* published_at, else b.published_at - a.published_at (newest first).
compareFn(a, b) ==
  IF a.published_at = Absent \/ b.published_at = Absent
  THEN 0
  ELSE b.published_at - a.published_at

\* ECMA-262, Array.prototype.sort: the result is the stable sort when
\* compareFn is a consistent comparator for the elements (here: "compares 0"
\* is transitive), and otherwise an implementation-defined order of them.
ConsistentComparator(rows) ==
  \A i, j, k \in DOMAIN rows :
    (compareFn(rows[i], rows[j]) = 0 /\ compareFn(rows[j], rows[k]) = 0)
      => compareFn(rows[i], rows[k]) = 0

IndexPermutations(n) == {p \in [1..n -> 1..n] : \A i, j \in 1..n : p[i] = p[j] => i = j}

Permuted(rows, p) == [i \in DOMAIN rows |-> rows[p[i]]]

StableOrder(rows, p) ==
  \A i, j \in DOMAIN rows :
    i < j => \/ compareFn(rows[p[i]], rows[p[j]]) < 0
             \/ compareFn(rows[p[i]], rows[p[j]]) = 0 /\ p[i] < p[j]

\* The orders of 1..n rows, for every length of a batch.
Orders == [n \in 0..MaxLen |-> IndexPermutations(n)]

SortOutcomes(rows) ==
  IF ConsistentComparator(rows)
  THEN {Permuted(rows, p) : p \in {q \in Orders[Len(rows)] : StableOrder(rows, q)}}
  ELSE {Permuted(rows, p) : p \in Orders[Len(rows)]}

\* const updates = metricsWithDates.map(metric => ({id, engagement_score})):
\* update i carries the id of row i and the score of row i, here the score.
\* The calls of one map run within the same tick of the clock.
scoreUpdates(rows, clock) ==
  [i \in DOMAIN rows |->
     computeEngagementScore(rows[i].downloads_7d, rows[i].github_repo_count,
                            rows, rows[i].published_at, clock)]

\* A row of paper_metrics with the published_at of its paper attached
\* ({...metric, published_at}).
MetricRow(id, paper_id, downloads_7d, published_at) ==
  [id |-> id, paper_id |-> paper_id, downloads_7d |-> downloads_7d,
   github_repo_count |-> 0, published_at |-> published_at]

\* an incremental path: every row scored against a batch that holds it alone
engagementUpdates_scoredAlone(rows, clock) ==
  [i \in DOMAIN rows |->
     [id |-> rows[i].id,
      engagement_score |->
        computeEngagementScore(rows[i].downloads_7d, rows[i].github_repo_count,
                               <<rows[i]>>, rows[i].published_at, clock)]]

\* The updates as the code builds them: {id: metric.id, engagement_score}.
engagementUpdates(rows, clock) ==
  LET scores == scoreUpdates(rows, clock)
  IN  [i \in DOMAIN rows |-> [id |-> rows[i].id, engagement_score |-> scores[i]]]

\* for (const update of updates) update({engagement_score}).eq('id', update.id),
\* every write succeeding: a row holds the score of the last update with its id.
writtenScores(upd) ==
  [id \in {upd[i].id : i \in DOMAIN upd} |->
     LET last == CHOOSE i \in DOMAIN upd :
                   upd[i].id = id /\ \A j \in DOMAIN upd : upd[j].id = id => j <= i
     IN  upd[last].engagement_score]

\* ------------------------------------------------------------------ state
VARIABLES
  metricsWithDates,  \* the rows of the snapshot date, each with the published_at
                     \* of its paper (or Absent); sorted in place before scoring
  now,               \* the clock
  pc,                \* "read": rows fetched and dates attached; "scored"; "rescored"
  updates,           \* the scores of the latest scoring, in the order of the rows
  earlier            \* the scores of the scoring before it

\* normalize called on its own
VARIABLES
  normArgs,          \* the arguments [value, min, max] of a call of normalize
  normResult         \* what the call returned, <<>> before it

\* two scorings of the same papers and citation counts
VARIABLES
  pairBatch,         \* the rows of the papers as the store returns them now
  pairNow,           \* the clock
  pairPc,            \* "first": nothing scored yet; "varying": first batch scored
  pairFirst,         \* the engagement_score of every row after the first scoring
  pairSecond,        \* the same after the latest later scoring, <<>> before it
  pairVaried         \* what changed since the first scoring

\* fetchCitationCountsBatch and its calls of fetchCitationCount
VARIABLES
  arxivIds,          \* the ids to fetch counts for
  batchSize,
  fetchIndex,        \* the loop variable i
  calls,             \* the calls of fetchCitationCount of the current batch, by id
  results,           \* the Map of counts, by id
  fetchPc            \* "loop", "awaitAll", "delay", "returned", "thrown"

\* GET /api/diff
VARIABLES
  diffTable,         \* the rows of paper_metrics, snapshot_date in days from today
  diffTies,          \* how the store orders rows of equal engagement_score
  diffResponse       \* the response, <<>> before the request

\* GET /api/papers
VARIABLES
  papersJoined,      \* the papers, each with its paper_metrics rows embedded
  getRequest,        \* the query parameters fromDate, category, minScore
  getResponse        \* the response, <<>> before the request

\* the store and the runs of computeEngagementScoresForDate on it
VARIABLES
  papers,            \* published_at by paper id (Absent: none comes back)
  paper_metrics,     \* the rows of the table
  storeOrder,        \* the order in which a select returns rows
  run                \* every run: where it stands, what it read, computed, wrote

\* the ingestion and the citation backfill, run "A" and run "B" being the
\* recomputations they end with
VARIABLES
  ingest,            \* the runs of GET /api/cron/ingest, by the name of their
                     \* recomputation: where each stands, its feed, metricsToInsert
  backfill           \* GET /api/cron/backfill-citations: where it stands, its papers

scoreVars == <<metricsWithDates, now, pc, updates, earlier>>
normVars == <<normArgs, normResult>>
pairVars == <<pairBatch, pairNow, pairPc, pairFirst, pairSecond, pairVaried>>
fetchVars == <<arxivIds, batchSize, fetchIndex, calls, results, fetchPc>>
diffVars == <<diffTable, diffTies, diffResponse>>
getVars == <<papersJoined, getRequest, getResponse>>
storeVars == <<papers, paper_metrics, storeOrder, run>>
jobVars == <<ingest, backfill>>

vars == <<scoreVars, normVars, pairVars, fetchVars, diffVars, getVars, storeVars, jobVars>>

\* The variables a specification does not use keep these values.
ScoreIdle ==
  /\ metricsWithDates = <<>>
  /\ now = 0
  /\ pc = "off"
  /\ updates = <<>>
  /\ earlier = <<>>
NormIdle == normArgs = <<>> /\ normResult = <<>>
PairIdle ==
  /\ pairBatch = <<>>
  /\ pairNow = 0
  /\ pairPc = "off"
  /\ pairFirst = <<>>
  /\ pairSecond = <<>>
  /\ pairVaried = {}
FetchIdle ==
  /\ arxivIds = <<>>
  /\ batchSize = 0
  /\ fetchIndex = 0
  /\ calls = <<>>
  /\ results = <<>>
  /\ fetchPc = "off"
DiffIdle == diffTable = <<>> /\ diffTies = "off" /\ diffResponse = <<>>
GetIdle == papersJoined = <<>> /\ getRequest = <<>> /\ getResponse = <<>>
StoreIdle == papers = <<>> /\ paper_metrics = {} /\ storeOrder = "off" /\ run = <<>>
JobIdle == ingest = <<>> /\ backfill = <<>>

notScore == <<normVars, pairVars, fetchVars, diffVars, getVars, storeVars, jobVars>>
notNorm == <<scoreVars, pairVars, fetchVars, diffVars, getVars, storeVars, jobVars>>
notPair == <<scoreVars, normVars, fetchVars, diffVars, getVars, storeVars, jobVars>>
notFetch == <<scoreVars, normVars, pairVars, diffVars, getVars, storeVars, jobVars>>
notDiff == <<scoreVars, normVars, pairVars, fetchVars, getVars, storeVars, jobVars>>
notGet == <<scoreVars, normVars, pairVars, fetchVars, diffVars, storeVars, jobVars>>
notStore == <<scoreVars, normVars, pairVars, fetchVars, diffVars, getVars, jobVars>>
notJobs == <<scoreVars, normVars, pairVars, fetchVars, diffVars, getVars>>

\* Citation counts of a batch: none, the most cited, half of that.
CiteCounts == {0, MaxCite \div 2, MaxCite}
PublishTimes == (0..MaxPub) \cup {Absent}

\* A batch in the order the store returned it.
Batch(c, d) == [i \in DOMAIN c |-> Metric(c[i], d[i])]

Init ==
  /\ \E n \in 1..MaxLen :
       \E c \in [1..n -> CiteCounts], d \in [1..n -> PublishTimes] :
         metricsWithDates = Batch(c, d)
  /\ now \in FirstNow..MaxNow
  /\ pc = "read"
  /\ updates = <<>>
  /\ earlier = <<>>
  /\ NormIdle /\ PairIdle /\ FetchIdle /\ DiffIdle /\ GetIdle /\ StoreIdle /\ JobIdle

\* Lines 255-273: sort the rows in place, score every row against the batch.
ScoreBatch ==
  /\ pc = "read"
  /\ \E sorted \in SortOutcomes(metricsWithDates) :
       /\ metricsWithDates' = sorted
       /\ updates' = scoreUpdates(sorted, now)
  /\ pc' = "scored"
  /\ UNCHANGED <<now, earlier>>
  /\ UNCHANGED notScore

\* Time passes between two scorings of the batch.
Tick ==
  /\ pc = "scored"
  /\ now < MaxNow
  /\ now' = now + 1
  /\ UNCHANGED <<metricsWithDates, pc, updates, earlier>>
  /\ UNCHANGED notScore

\* The same, unchanged batch is scored again.
Rescore ==
  /\ pc = "scored"
  /\ earlier' = updates
  /\ updates' = scoreUpdates(metricsWithDates, now)
  /\ pc' = "rescored"
  /\ UNCHANGED <<metricsWithDates, now>>
  /\ UNCHANGED notScore

Next == ScoreBatch \/ Tick \/ Rescore

Spec == Init /\ [][Next]_vars

\* ------------------------------------------------ normalize on its own
\* normalize(value, min, max) for all integers of -NormRange..NormRange.
InitNormalize ==
  /\ \E v, mn, mx \in (-NormRange)..NormRange :
       normArgs = [value |-> v, min |-> mn, max |-> mx]
  /\ normResult = <<>>
  /\ ScoreIdle /\ PairIdle /\ FetchIdle /\ DiffIdle /\ GetIdle /\ StoreIdle /\ JobIdle

CallNormalize ==
  /\ normResult = <<>>
  /\ normResult' = normalize(Num(normArgs.value), Num(normArgs.min), Num(normArgs.max))
  /\ UNCHANGED normArgs
  /\ UNCHANGED notNorm

NextNormalize == CallNormalize

SpecNormalize == InitNormalize /\ [][NextNormalize]_vars

\* ------------------------------- the same papers and counts scored twice
\* A batch is scored; then published_at of its papers, the order in which the
\* store returns the rows and the clock change, the citation counts do not,
\* and the batch is scored again.  A paper is undated, the oldest or the newest.
PairPublishTimes == {Absent, 0, MaxPub}

InitPair ==
  /\ \E n \in 1..PairLen :
       \E c \in [1..n -> CiteCounts], d \in [1..n -> PairPublishTimes] :
         pairBatch = [i \in 1..n |-> MetricRow(i, i, c[i], d[i])]
  /\ pairNow \in FirstNow..MaxNow
  /\ pairPc = "first"
  /\ pairFirst = <<>>
  /\ pairSecond = <<>>
  /\ pairVaried = {}
  /\ ScoreIdle /\ NormIdle /\ FetchIdle /\ DiffIdle /\ GetIdle /\ StoreIdle /\ JobIdle

ScoreFirst ==
  /\ pairPc = "first"
  /\ \E sorted \in SortOutcomes(pairBatch) :
       pairFirst' = writtenScores(engagementUpdates(sorted, pairNow))
  /\ pairPc' = "varying"
  /\ UNCHANGED <<pairBatch, pairNow, pairSecond, pairVaried>>
  /\ UNCHANGED notPair

\* The paper of a row is upserted with another published_at.
Republish ==
  /\ pairPc = "varying"
  /\ \E i \in DOMAIN pairBatch, d \in PairPublishTimes :
       /\ d # pairBatch[i].published_at
       /\ pairBatch' = [pairBatch EXCEPT ![i].published_at = d]
  /\ pairVaried' = pairVaried \cup {"published_at"}
  /\ UNCHANGED <<pairNow, pairPc, pairFirst, pairSecond>>
  /\ UNCHANGED notPair

\* The store returns two neighbouring rows the other way round.
Reorder ==
  /\ pairPc = "varying"
  /\ \E i \in DOMAIN pairBatch :
       /\ i < Len(pairBatch)
       /\ pairBatch' = [pairBatch EXCEPT ![i] = pairBatch[i + 1], ![i + 1] = pairBatch[i]]
  /\ pairVaried' = pairVaried \cup {"order"}
  /\ UNCHANGED <<pairNow, pairPc, pairFirst, pairSecond>>
  /\ UNCHANGED notPair

LaterTime ==
  /\ pairPc = "varying"
  /\ pairNow < MaxNow
  /\ pairNow' = pairNow + 1
  /\ pairVaried' = pairVaried \cup {"time"}
  /\ UNCHANGED <<pairBatch, pairPc, pairFirst, pairSecond>>
  /\ UNCHANGED notPair

ScoreSecond ==
  /\ pairPc = "varying"
  /\ \E sorted \in SortOutcomes(pairBatch) :
       pairSecond' = writtenScores(engagementUpdates(sorted, pairNow))
  /\ UNCHANGED <<pairBatch, pairNow, pairPc, pairFirst, pairVaried>>
  /\ UNCHANGED notPair

NextPair == ScoreFirst \/ Republish \/ Reorder \/ LaterTime \/ ScoreSecond

SpecPair == InitPair /\ [][NextPair]_vars

\* ------------------------- the same batch returned by the store in any order
\* A batch of up to MaxLen rows is scored; the store then returns the same rows
\* (ids, counts, published_at) in other orders at the same time of the clock,
\* and the batch is scored again.  A paper is uncited or cited.
OrderCiteCounts == {0, MaxCite}

InitOrder ==
  /\ \E n \in 1..MaxLen :
       \E c \in [1..n -> OrderCiteCounts], d \in [1..n -> PairPublishTimes] :
         pairBatch = [i \in 1..n |-> MetricRow(i, i, c[i], d[i])]
  /\ pairNow = FirstNow
  /\ pairPc = "first"
  /\ pairFirst = <<>>
  /\ pairSecond = <<>>
  /\ pairVaried = {}
  /\ ScoreIdle /\ NormIdle /\ FetchIdle /\ DiffIdle /\ GetIdle /\ StoreIdle /\ JobIdle

NextOrder == ScoreFirst \/ Reorder \/ ScoreSecond

SpecOrder == InitOrder /\ [][NextOrder]_vars

\* ------------------------------------------- lib/semantic.ts: citation counts
\* What the Semantic Scholar request of one call can come to: fetch rejects
\* (status 0), or a response with a status; response.json() rejects, or gives
\* null, or an object with or without a citationCount.
Statuses == {200, 404, 429, 500}
FetchOutcomes == {[rejected |-> TRUE, status |-> 0]}
                   \cup {[rejected |-> FALSE, status |-> st] : st \in Statuses}
Bodies == {[kind |-> k, has |-> FALSE, citationCount |-> 0] : k \in {"unparseable", "null", "object"}}
            \cup {[kind |-> "object", has |-> TRUE, citationCount |-> c] : c \in CiteCounts}
NoBody == [kind |-> "none", has |-> FALSE, citationCount |-> 0]

ok(status) == status \in 200..299

\* A call of fetchCitationCount at its first await.
NewCall == [pc |-> "fetch", status |-> 0, data |-> NoBody, citationCount |-> 0, result |-> 0]

\* the error leaves the function
catchError_rethrown(call) == call

\* catch (error) { console.error(...); return 0; }
catchError(call) ==
  IF call.pc = "thrown"
  THEN [call EXCEPT !.pc = "returned", !.result = 0]
  ELSE call

\* Lines 21-38 inside the try block, from the settling of fetch.
afterFetch(call, settled) ==
  IF settled.rejected
  THEN [call EXCEPT !.pc = "thrown"]
  ELSE IF ~ok(settled.status)
       THEN IF settled.status = 404 \/ settled.status = 429
            THEN [call EXCEPT !.pc = "returned", !.status = settled.status, !.result = 0]
            ELSE [call EXCEPT !.pc = "thrown", !.status = settled.status]
       ELSE [call EXCEPT !.pc = "json", !.status = settled.status]

\* Lines 40-41: data = await response.json(); citationCount = data.citationCount || 0.
afterJson(call, body) ==
  IF body.kind # "object"
  THEN [call EXCEPT !.pc = "thrown", !.data = body]
  ELSE [call EXCEPT !.pc = "delay", !.data = body,
                    !.citationCount = IF body.has THEN body.citationCount ELSE 0]

\* Lines 44-46: the delay is over, return citationCount.
afterDelay(call) == [call EXCEPT !.pc = "returned", !.result = call.citationCount]

\* every remaining id taken into the batch
slice_wholeRest(ids, from, to) == {ids[k] : k \in {j \in DOMAIN ids : from < j}}

\* arxivIds.slice(i, i + batchSize), as the set of its ids.
slice(ids, from, to) == {ids[k] : k \in {j \in DOMAIN ids : from < j /\ j <= to}}

InitFetch ==
  /\ \E n \in 0..MaxIds : arxivIds = [k \in 1..n |-> k]
  /\ batchSize \in 1..MaxBatchSize
  /\ fetchIndex = 0
  /\ calls = <<>>
  /\ results = <<>>
  /\ fetchPc = "loop"
  /\ ScoreIdle /\ NormIdle /\ PairIdle /\ DiffIdle /\ GetIdle /\ StoreIdle /\ JobIdle

\* Lines 64-71: the next batch, one call per id, all started.
StartBatch ==
  /\ fetchPc = "loop"
  /\ fetchIndex < Len(arxivIds)
  /\ calls' = [id \in slice(arxivIds, fetchIndex, fetchIndex + batchSize) |-> NewCall]
  /\ fetchPc' = "awaitAll"
  /\ UNCHANGED <<arxivIds, batchSize, fetchIndex, results>>
  /\ UNCHANGED notFetch

FetchSettles ==
  /\ fetchPc = "awaitAll"
  /\ \E id \in DOMAIN calls, settled \in FetchOutcomes :
       /\ calls[id].pc = "fetch"
       /\ calls' = [calls EXCEPT ![id] = catchError(afterFetch(calls[id], settled))]
  /\ UNCHANGED <<arxivIds, batchSize, fetchIndex, results, fetchPc>>
  /\ UNCHANGED notFetch

JsonSettles ==
  /\ fetchPc = "awaitAll"
  /\ \E id \in DOMAIN calls, body \in Bodies :
       /\ calls[id].pc = "json"
       /\ calls' = [calls EXCEPT ![id] = catchError(afterJson(calls[id], body))]
  /\ UNCHANGED <<arxivIds, batchSize, fetchIndex, results, fetchPc>>
  /\ UNCHANGED notFetch

DelayElapses ==
  /\ fetchPc = "awaitAll"
  /\ \E id \in DOMAIN calls :
       /\ calls[id].pc = "delay"
       /\ calls' = [calls EXCEPT ![id] = catchError(afterDelay(calls[id]))]
  /\ UNCHANGED <<arxivIds, batchSize, fetchIndex, results, fetchPc>>
  /\ UNCHANGED notFetch

\* Lines 73-82: Promise.all settles: it rejects once a call has thrown, and
\* fulfils when every call has returned; then the counts enter the Map.
CollectBatch ==
  /\ fetchPc = "awaitAll"
  /\ IF \E id \in DOMAIN calls : calls[id].pc = "thrown"
     THEN /\ fetchPc' = "thrown"
          /\ UNCHANGED <<fetchIndex, results>>
     ELSE /\ \A id \in DOMAIN calls : calls[id].pc = "returned"
          /\ results' = [id \in DOMAIN results \cup DOMAIN calls |->
                           IF id \in DOMAIN calls THEN calls[id].result ELSE results[id]]
          /\ fetchIndex' = fetchIndex + batchSize
          /\ fetchPc' = IF fetchIndex + batchSize < Len(arxivIds) THEN "delay" ELSE "loop"
  /\ UNCHANGED <<arxivIds, batchSize, calls>>
  /\ UNCHANGED notFetch

BatchDelayElapses ==
  /\ fetchPc = "delay"
  /\ fetchPc' = "loop"
  /\ UNCHANGED <<arxivIds, batchSize, fetchIndex, calls, results>>
  /\ UNCHANGED notFetch

\* Line 85: return results.
ReturnResults ==
  /\ fetchPc = "loop"
  /\ fetchIndex >= Len(arxivIds)
  /\ fetchPc' = "returned"
  /\ UNCHANGED <<arxivIds, batchSize, fetchIndex, calls, results>>
  /\ UNCHANGED notFetch

NextFetch ==
  \/ StartBatch
  \/ FetchSettles
  \/ JsonSettles
  \/ DelayElapses
  \/ CollectBatch
  \/ BatchDelayElapses
  \/ ReturnResults

SpecFetch == InitFetch /\ [][NextFetch]_vars

\* The same with the scheduling of the runtime: a continuation that is ready
\* runs, a timer that was set fires, and a request that was sent settles (the
\* HTTP client ends a request that gets no answer with a timeout error).
SpecFetchFair == SpecFetch /\ WF_vars(NextFetch)

\* The calls of fetchCitationCount that have started and not yet settled.
inFlight == {id \in DOMAIN calls : calls[id].pc \notin {"returned", "thrown"}}

\* ------------------------------------------------------------ GET /api/diff
Half == Frac(1, 2)

\* The kinds of rows in the table: a day before the window with the top score,
\* on the first day of the window, and today with no, half and the top score.
DiffKinds ==
  << [snapshot_date |-> -(DaysInWindow + 1), engagement_score |-> One],
     [snapshot_date |-> -DaysInWindow, engagement_score |-> Half],
     [snapshot_date |-> 0, engagement_score |-> Zero],
     [snapshot_date |-> 0, engagement_score |-> Half],
     [snapshot_date |-> 0, engagement_score |-> One] >>

RECURSIVE SumTo(_, _)
SumTo(c, n) == IF n = 0 THEN 0 ELSE c[n] + SumTo(c, n - 1)

\* The kind of row i when c[k] rows of kind k follow one another.
KindAt(c, i) == CHOOSE k \in DOMAIN c : SumTo(c, k - 1) < i /\ i <= SumTo(c, k)

\* b before a in .order('engagement_score', {ascending: false}); the order
\* of rows with equal scores is the store's.
scoreOrder(a, b, ties) ==
  \/ RLess(a.engagement_score, b.engagement_score)
  \/ /\ a.engagement_score = b.engagement_score
     /\ IF ties = "byId" THEN b.id < a.id ELSE a.id < b.id

\* The rows of S as a sequence in that order.
orderedByScore(S, ties) ==
  [i \in 1..Cardinality(S) |->
     CHOOSE r \in S : Cardinality({q \in S : scoreOrder(r, q, ties)}) = i - 1]

\* Lines 34-41: paper_metrics with snapshot_date >= last7d, highest score first.
recentMetrics(table, ties) ==
  orderedByScore({table[i] : i \in {j \in DOMAIN table :
                                      table[j].snapshot_date >= -DaysInWindow}}, ties)

\* numbers.sort((a, b) => b - a)
RECURSIVE sortDescending(_)
sortDescending(numbers) ==
  IF numbers = <<>>
  THEN <<>>
  ELSE LET rest == sortDescending(Tail(numbers))
           before == SelectSeq(rest, LAMBDA x : ~RLess(x, Head(numbers)))
           after == SelectSeq(rest, LAMBDA x : RLess(x, Head(numbers)))
       IN  before \o <<Head(numbers)>> \o after

\* the scores of all rows, zero or not
allScores_unfiltered(recent) ==
  sortDescending([i \in DOMAIN recent |-> recent[i].engagement_score])

\* Lines 67-70.
allScores(recent) ==
  sortDescending(SelectSeq([i \in DOMAIN recent |-> recent[i].engagement_score],
                           LAMBDA x : RLess(Zero, x)))

\* Math.ceil(n * 0.1); the product of a double n < 2000 with 0.1 has the
\* ceiling of n / 10.
ceilTenth(n) == (n + 9) \div 10

\* Lines 72-73: allScores[top10PercentIndex - 1] || 0, an index outside the
\* array giving undefined.
threshold(scores) ==
  LET top10PercentIndex == ceilTenth(Len(scores))
  IN  IF top10PercentIndex - 1 \in 0..(Len(scores) - 1) /\ scores[top10PercentIndex] # Zero
      THEN scores[top10PercentIndex]
      ELSE Zero

\* Lines 75-77: filter by the threshold, slice(0, Math.ceil(allScores.length * 0.1)).
risingPapers(recent) ==
  LET scores == allScores(recent)
      limit == threshold(scores)
      above == SelectSeq(recent, LAMBDA m : RLeq(limit, m.engagement_score))
      end == ceilTenth(Len(scores))
  IN  SubSeq(above, 1, IF end < Len(above) THEN end ELSE Len(above))

InitDiff ==
  /\ \E c \in [DOMAIN DiffKinds -> 0..MaxMetrics] :
       /\ SumTo(c, Len(DiffKinds)) <= MaxMetrics
       /\ diffTable = [i \in 1..SumTo(c, Len(DiffKinds)) |->
                         [id |-> i,
                          snapshot_date |-> DiffKinds[KindAt(c, i)].snapshot_date,
                          engagement_score |-> DiffKinds[KindAt(c, i)].engagement_score]]
  /\ diffTies \in {"byId", "byIdReversed"}
  /\ diffResponse = <<>>
  /\ ScoreIdle /\ NormIdle /\ PairIdle /\ FetchIdle /\ GetIdle /\ StoreIdle /\ JobIdle

\* GET: either query fails and the response is the error (lines 29-31, 43-45,
\* 93-98), or the response carries risingPapers.
GetDiff ==
  /\ diffResponse = <<>>
  /\ \E failed \in BOOLEAN :
       diffResponse' =
         IF failed
         THEN [status |-> 500, risingPapers |-> <<>>]
         ELSE [status |-> 200, risingPapers |-> risingPapers(recentMetrics(diffTable, diffTies))]
  /\ UNCHANGED <<diffTable, diffTies>>
  /\ UNCHANGED notDiff

NextDiff == GetDiff

SpecDiff == InitDiff /\ [][NextDiff]_vars

\* The rows of the window and those of them with a positive score.
InWindow == {diffTable[i] : i \in {j \in DOMAIN diffTable : diffTable[j].snapshot_date >= -DaysInWindow}}
PositiveInWindow == {m \in InWindow : RLess(Zero, m.engagement_score)}
Rising == {diffResponse.risingPapers[i] : i \in DOMAIN diffResponse.risingPapers}

\* ---------------------------------------------------------- GET /api/papers
\* Days are counted from today; no fromDate means the day DaysInWindow ago.
NoParam == "none"
FromDates == {NoParam, "given"}
GivenFromDate == 1 - DaysInWindow
Categories == {"cs.AI", "cs.LG"}
PaperIds == {"p1", "p2"}

\* The paper_metrics arrays a paper can carry: k rows on the days -k+1..0, in
\* any order, each with no score or the top score.
MetricArrays ==
  UNION {{[i \in 1..k |-> [snapshot_date |-> 1 - p[i], engagement_score |-> sc[i]]] :
            p \in {q \in [1..k -> 1..k] : \A i, j \in 1..k : q[i] = q[j] => i = j},
            sc \in [1..k -> {Zero, One}]} : k \in 0..MaxSnapshots}

undefinedMetrics == [defined |-> FALSE, snapshot_date |-> 0, engagement_score |-> Zero]

\* the test of the reduce turned round
latestMetric_earliest(metrics) ==
  LET RECURSIVE fold(_, _)
      fold(latest, i) ==
        IF i > Len(metrics) THEN latest
        ELSE fold(IF metrics[i].snapshot_date < latest.snapshot_date THEN metrics[i] ELSE latest,
                  i + 1)
  IN  fold(metrics[1], 2)

\* Lines 63-67: metrics.reduce((latest, current) => current.snapshot_date >
\* latest.snapshot_date ? current : latest): the first element is the first
\* latest, the second the first current.
latestMetric(metrics) ==
  LET RECURSIVE fold(_, _)
      fold(latest, i) ==
        IF i > Len(metrics) THEN latest
        ELSE fold(IF metrics[i].snapshot_date > latest.snapshot_date THEN metrics[i] ELSE latest,
                  i + 1)
  IN  fold(metrics[1], 2)

\* Lines 29-38: the papers with published_at >= dateFilter, of the category if
\* one is asked for, newest first.
dateFilter(request) == IF request.fromDate = NoParam THEN -DaysInWindow ELSE GivenFromDate

matchesQuery(paper, request) ==
  /\ paper.published_at >= dateFilter(request)
  /\ request.category # NoParam => request.category \in paper.categories

queryPapers(table, request) ==
  LET S == {id \in DOMAIN table : matchesQuery(table[id], request)}
      \* papers published on the same day come in the order p1, p2
      before(a, b) == \/ table[a].published_at > table[b].published_at
                      \/ table[a].published_at = table[b].published_at /\ a = "p1" /\ b = "p2"
  IN  [i \in 1..Cardinality(S) |->
         CHOOSE id \in S : Cardinality({other \in S : before(other, id)}) = i - 1]

\* Lines 45-74: one entry per paper, with its latest metric if it has metrics.
paperEntry(id, paper) ==
  [id |-> id,
   metrics |-> IF Len(paper.paper_metrics) > 0
               THEN [defined |-> TRUE] @@ latestMetric(paper.paper_metrics)
               ELSE undefinedMetrics]

\* Lines 88-92: sort by the score of the metric, or 0, descending.
RECURSIVE sortByScore(_)
sortByScore(entries) ==
  IF entries = <<>>
  THEN <<>>
  ELSE LET rest == sortByScore(Tail(entries))
           first == Head(entries)
           above == SelectSeq(rest, LAMBDA e : RLess(first.metrics.engagement_score,
                                                     e.metrics.engagement_score))
           notAbove == SelectSeq(rest, LAMBDA e : ~RLess(first.metrics.engagement_score,
                                                         e.metrics.engagement_score))
       IN  above \o <<first>> \o notAbove

\* Lines 44-94.
papersWithLatestMetrics(table, request) ==
  LET found == queryPapers(table, request)
      entries == [i \in DOMAIN found |-> paperEntry(found[i], table[found[i]])]
      filtered == IF RLess(Zero, request.minScore)
                  THEN SelectSeq(entries, LAMBDA e :
                         e.metrics.defined /\ RLeq(request.minScore, e.metrics.engagement_score))
                  ELSE entries
  IN  sortByScore(filtered)

InitGet ==
  /\ papersJoined \in [PaperIds -> [published_at : {GivenFromDate - 1, GivenFromDate},
                                    categories : {{c} : c \in Categories},
                                    paper_metrics : MetricArrays]]
  /\ getRequest \in [fromDate : FromDates, category : {NoParam, "cs.AI"}, minScore : {Half, One}]
  /\ getResponse = <<>>
  /\ ScoreIdle /\ NormIdle /\ PairIdle /\ FetchIdle /\ DiffIdle /\ StoreIdle /\ JobIdle

\* GET: the query fails and the response is the error (lines 40-42, 95-100),
\* or the response is the list of papers.
GetPapers ==
  /\ getResponse = <<>>
  /\ \E failed \in BOOLEAN :
       getResponse' =
         IF failed
         THEN [status |-> 500, papers |-> <<>>]
         ELSE [status |-> 200, papers |-> papersWithLatestMetrics(papersJoined, getRequest)]
  /\ UNCHANGED <<papersJoined, getRequest>>
  /\ UNCHANGED notGet

NextGet == GetPapers

SpecGet == InitGet /\ [][NextGet]_vars

\* ------------------------- computeEngagementScoresForDate against the store
Runs == {"A", "B"}

StoredMetric(id, paper_id, snapshot_date, downloads_7d, engagement_score) ==
  [id |-> id, paper_id |-> paper_id, snapshot_date |-> snapshot_date,
   downloads_7d |-> downloads_7d, github_repo_count |-> 0,
   engagement_score |-> engagement_score]

IdleRun == [pc |-> "idle", metrics |-> <<>>, updates |-> <<>>, next |-> 1,
            attempted |-> {}, rejected |-> {}]

\* Lines 211-214: select('*').eq('snapshot_date', snapshotDate), the rows
\* in the order of the store.
selectMetrics(table, snapshotDate, order) ==
  LET S == {m \in table : m.snapshot_date = snapshotDate}
      before(a, b) == IF order = "byId" THEN a.id < b.id ELSE b.id < a.id
  IN  [i \in 1..Cardinality(S) |->
         CHOOSE m \in S : Cardinality({q \in S : before(q, m)}) = i - 1]

\* the return for an empty batch left out
afterMetricsRead_noEarlyReturn(metrics) == "readPapers"

\* Lines 220-222: if (!metrics || metrics.length === 0) return.
afterMetricsRead(metrics) == IF Len(metrics) = 0 THEN "done" ELSE "readPapers"

\* only the rows with a published_at are scored
attachDates_datedOnly(metrics, paperDateMap) ==
  SelectSeq([i \in DOMAIN metrics |->
               [published_at |-> paperDateMap[metrics[i].paper_id]] @@ metrics[i]],
            LAMBDA m : m.published_at # Absent)

\* Lines 250-253: {...m, published_at: paperDateMap.get(m.paper_id) || null}.
attachDates(metrics, paperDateMap) ==
  [i \in DOMAIN metrics |-> [published_at |-> paperDateMap[metrics[i].paper_id]] @@ metrics[i]]

\* the filter on the id left out
updateScore_unkeyed(table, id, score) ==
  {[m EXCEPT !.engagement_score = score] : m \in table}

\* the write addressed by the paper of the row instead of the id of the row
updateScore_byPaper(table, id, score) ==
  LET paper == (CHOOSE m \in table : m.id = id).paper_id
  IN  {IF m.paper_id = paper THEN [m EXCEPT !.engagement_score = score] ELSE m : m \in table}

\* Lines 277-280: update({engagement_score}).eq('id', update.id).
updateScore(table, id, score) ==
  {IF m.id = id THEN [m EXCEPT !.engagement_score = score] ELSE m : m \in table}

\* the loop left at the first rejected write
nextUpdate_abortOnError(next, end, rejected) == IF rejected THEN end + 1 ELSE next + 1

\* Lines 276-285: a rejected write is logged and the loop goes on.
nextUpdate(next, end, rejected) == next + 1

InitStore ==
  /\ \E n \in 0..MaxRows :
       \E c \in [1..n -> CiteCounts], d \in [1..(IF n = 0 THEN 1 ELSE n) -> PairPublishTimes],
          earlierDay \in BOOLEAN :
         /\ papers = d
         /\ paper_metrics =
              {StoredMetric(i, i, today, c[i], Zero) : i \in 1..n}
                \cup (IF earlierDay
                      THEN {StoredMetric(n + 1, 1, today - 1, MaxCite, One)}
                      ELSE {})
  /\ storeOrder \in {"byId", "byIdReversed"}
  /\ run = [r \in Runs |-> IdleRun]
  /\ ScoreIdle /\ NormIdle /\ PairIdle /\ FetchIdle /\ DiffIdle /\ GetIdle /\ JobIdle

\* Lines 211-222: the rows of the date are read; the read fails and the run
\* throws, or the batch is empty and the run returns, or the run goes on.
ReadMetrics(r) ==
  /\ run[r].pc = "idle"
  /\ \E failed \in BOOLEAN :
       run' = [run EXCEPT ![r] =
                 IF failed
                 THEN [@ EXCEPT !.pc = "failed"]
                 ELSE LET metrics == selectMetrics(paper_metrics, today, storeOrder)
                      IN  [@ EXCEPT !.pc = afterMetricsRead(metrics), !.metrics = metrics]]
  /\ UNCHANGED <<papers, paper_metrics, storeOrder>>
  /\ UNCHANGED notStore

\* Lines 225-273: the dates are read; the read fails and the run throws, or
\* the rows get their dates, are sorted and scored.
ScoreMetrics(r) ==
  /\ run[r].pc = "readPapers"
  /\ \E failed \in BOOLEAN, clock \in FirstNow..MaxNow :
       \E sorted \in SortOutcomes(attachDates(run[r].metrics, papers)) :
         run' = [run EXCEPT ![r] =
                   IF failed
                   THEN [@ EXCEPT !.pc = "failed"]
                   ELSE [@ EXCEPT !.pc = IF Len(sorted) = 0 THEN "done" ELSE "write",
                                  !.updates = engagementUpdates(sorted, clock)]]
  /\ UNCHANGED <<papers, paper_metrics, storeOrder>>
  /\ UNCHANGED notStore

\* Lines 276-285: the next update is written, or rejected by the store and
\* logged; after the last one the run returns.
WriteScore(r, canFail) ==
  /\ run[r].pc = "write"
  /\ LET update == run[r].updates[run[r].next]
     IN  \E rejected \in (IF canFail THEN BOOLEAN ELSE {FALSE}) :
           LET next == nextUpdate(run[r].next, Len(run[r].updates), rejected)
           IN  /\ paper_metrics' = IF rejected
                                   THEN paper_metrics
                                   ELSE updateScore(paper_metrics, update.id, update.engagement_score)
               /\ run' = [run EXCEPT ![r] =
                            [@ EXCEPT !.pc = IF next > Len(run[r].updates) THEN "done" ELSE "write",
                                      !.next = next,
                                      !.attempted = @ \cup {update.id},
                                      !.rejected = IF rejected THEN @ \cup {update.id} ELSE @]]
  /\ UNCHANGED <<papers, storeOrder>>
  /\ UNCHANGED notStore

\* One recomputation, whose writes the store may reject.
NextRecalc == ReadMetrics("A") \/ ScoreMetrics("A") \/ WriteScore("A", TRUE)

SpecRecalc == InitStore /\ [][NextRecalc]_vars

\* Two recomputations of the same date at once, no write rejected.
NextConcurrent == \E r \in Runs : ReadMetrics(r) \/ ScoreMetrics(r) \/ WriteScore(r, FALSE)

\* The store then holds rows of the snapshot date only.
InitConcurrent == InitStore /\ \A m \in paper_metrics : m.snapshot_date = today

SpecConcurrent == InitConcurrent /\ [][NextConcurrent]_vars

\* --------------------------------------------- cron/recalculate-scores

\* the catch answering without { status: 500 }
recalculateScoresResponse_noStatus(outcome) ==
  IF outcome = "failed"
  THEN [status |-> 200, ok |-> FALSE]
  ELSE [status |-> 200, ok |-> TRUE]

\* GET /api/cron/recalculate-scores: try { await computeEngagementScoresForDate(today);
\* return {ok: true} } catch { return {ok: false}, status 500 }, as a function of
\* how the run ended ("done": it returned, "failed": it threw).
recalculateScoresResponse(outcome) ==
  IF outcome = "failed"
  THEN [status |-> 500, ok |-> FALSE]
  ELSE [status |-> 200, ok |-> TRUE]

\* The rows of the date in the store, and the score held for a metric id.
todaysMetrics == {m \in paper_metrics : m.snapshot_date = today}
storedScore(id) == (CHOOSE m \in paper_metrics : m.id = id).engagement_score
IsNumber(x) == x \in Int \X (Nat \ {0})

\* ------------------------------------- cron/ingest and cron/backfill-citations
\* published_at of the papers of the feed.
publishedOn == [p \in PaperIds |-> IF p = "p1" THEN 0 ELSE MaxPub]

\* The feeds of the ingestion: one or both papers, in either order.
Feeds == {<<p>> : p \in PaperIds} \cup {x \in PaperIds \X PaperIds : x[1] # x[2]}

noMetric == 0

\* What a request to the store can come to: TRUE is an error.  A
\* specification without store failures passes canFail = FALSE.
StoreErrors(canFail) == IF canFail THEN BOOLEAN ELSE {FALSE}

\* .eq('paper_id', id).eq('snapshot_date', today).single(): the id of the row
\* if there is exactly one, else null.
existingMetric(table, paper_id) ==
  LET found == {m \in table : m.paper_id = paper_id /\ m.snapshot_date = today}
  IN  IF Cardinality(found) = 1 THEN (CHOOSE m \in found : TRUE).id ELSE noMetric

\* id BIGSERIAL: the ids of new rows follow those handed out.
RECURSIVE withIds(_, _)
withIds(rows, lastId) ==
  IF rows = <<>>
  THEN {}
  ELSE {[id |-> lastId + 1] @@ Head(rows)} \cup withIds(Tail(rows), lastId + 1)

lastIdOf(table) == IF table = {} THEN 0 ELSE CHOOSE n \in {m.id : m \in table} : \A m \in table : m.id <= n

\* no constraint on the table
violatesUnique_unconstrained(table, rows) == FALSE

\* UNIQUE(paper_id, snapshot_date): an insert is rejected as a whole when one of
\* its rows repeats the pair of a row of the table or of another of its rows.
violatesUnique(table, rows) ==
  \/ \E i \in DOMAIN rows : \E m \in table :
       m.paper_id = rows[i].paper_id /\ m.snapshot_date = rows[i].snapshot_date
  \/ \E i, j \in DOMAIN rows :
       i # j /\ rows[i].paper_id = rows[j].paper_id /\ rows[i].snapshot_date = rows[j].snapshot_date

\* insert(rows): all rows enter the table, or none if the store rejects it.
insertMetrics(table, rows, rejected) ==
  IF rejected \/ violatesUnique(table, rows)
  THEN table
  ELSE table \cup withIds(rows, lastIdOf(table))

metricData(paper_id, downloads_7d) ==
  [paper_id |-> paper_id, snapshot_date |-> today, downloads_7d |-> downloads_7d,
   github_repo_count |-> 0, engagement_score |-> Zero]

\* An ingestion at the top of its loop, and a backfill before its read.
NewIngest(feed) ==
  [pc |-> "upsert", feed |-> feed, i |-> 1, existing |-> noMetric, metricsToInsert |-> <<>>]
NewBackfill == [pc |-> "readPapers", papers |-> <<>>, i |-> 1, existing |-> noMetric]

\* The store the jobs start on: some of the papers known, some of these with
\* a metric of today, uncited or cited, scored 0.
InitJobStore ==
  /\ \E known \in SUBSET PaperIds :
       /\ papers = [p \in known |-> publishedOn[p]]
       /\ \E counted \in SUBSET known :
            \E c \in [counted -> {0, MaxCite}] :
              \E order \in {<<"p1", "p2">>, <<"p2", "p1">>} :
                paper_metrics =
                  withIds(SelectSeq([i \in 1..Len(order) |->
                                       IF order[i] \in counted
                                       THEN metricData(order[i], c[order[i]])
                                       ELSE metricData("", 0)],
                                    LAMBDA m : m.paper_id # ""), 0)
  /\ storeOrder = "byId"
  /\ run = [r \in Runs |-> IdleRun]
  /\ ScoreIdle /\ NormIdle /\ PairIdle /\ FetchIdle /\ DiffIdle /\ GetIdle

InitIngest ==
  /\ InitJobStore
  /\ \E feed \in Feeds : ingest = [r \in {"A"} |-> NewIngest(feed)]
  /\ backfill = NewBackfill

\* the batch insert forgotten
ingestNext_insertSkipped(job) ==
  IF job.i < Len(job.feed)
  THEN [job EXCEPT !.pc = "upsert", !.i = job.i + 1, !.existing = noMetric]
  ELSE [job EXCEPT !.pc = "recompute", !.i = job.i + 1, !.existing = noMetric]

\* ingest, lines 21-113: the loop goes to the next paper, or leaves for the
\* batch insert if there is something to insert, else for the recomputation.
ingestNext(job) ==
  IF job.i < Len(job.feed)
  THEN [job EXCEPT !.pc = "upsert", !.i = job.i + 1, !.existing = noMetric]
  ELSE [job EXCEPT !.pc = IF Len(job.metricsToInsert) > 0 THEN "insert" ELSE "recompute",
                   !.i = job.i + 1, !.existing = noMetric]

\* Lines 23-40: upsert of the paper; on an error, continue.
IngestUpsert(r, canFail) ==
  /\ r \in DOMAIN ingest
  /\ ingest[r].pc = "upsert"
  /\ \E failed \in StoreErrors(canFail) :
       LET p == ingest[r].feed[ingest[r].i]
       IN  IF failed
           THEN /\ ingest' = [ingest EXCEPT ![r] = ingestNext(@)]
                /\ UNCHANGED papers
           ELSE /\ ingest' = [ingest EXCEPT ![r].pc = "check"]
                /\ papers' = [q \in DOMAIN papers \cup {p} |->
                                IF q = p THEN publishedOn[p] ELSE papers[q]]
  /\ UNCHANGED <<paper_metrics, storeOrder, run, backfill>>
  /\ UNCHANGED notJobs

\* Lines 67-101: is there a metric of today? If so it will be updated, if not
\* (or if the select fails) metricData is pushed to metricsToInsert.
IngestCheck(r, canFail) ==
  /\ r \in DOMAIN ingest
  /\ ingest[r].pc = "check"
  /\ \E failed \in StoreErrors(canFail) :
       LET job == ingest[r]
           found == IF failed THEN noMetric
                    ELSE existingMetric(paper_metrics, job.feed[job.i])
       IN  ingest' = [ingest EXCEPT ![r] =
                        IF found # noMetric
                        THEN [job EXCEPT !.pc = "update", !.existing = found]
                        ELSE ingestNext([job EXCEPT !.metricsToInsert =
                                           Append(@, metricData(job.feed[job.i], 0))])]
  /\ UNCHANGED <<papers, paper_metrics, storeOrder, run, backfill>>
  /\ UNCHANGED notJobs

\* Lines 83-97: the existing metric gets the stub counts and the score 0.
IngestUpdate(r, canFail) ==
  /\ r \in DOMAIN ingest
  /\ ingest[r].pc = "update"
  /\ \E rejected \in StoreErrors(canFail) :
       paper_metrics' =
         IF rejected
         THEN paper_metrics
         ELSE {IF m.id = ingest[r].existing
               THEN [m EXCEPT !.downloads_7d = 0, !.github_repo_count = 0,
                              !.engagement_score = Zero]
               ELSE m : m \in paper_metrics}
  /\ ingest' = [ingest EXCEPT ![r] = ingestNext(@)]
  /\ UNCHANGED <<papers, storeOrder, run, backfill>>
  /\ UNCHANGED notJobs

\* Lines 105-113: one insert of all new metrics; an error is logged.
IngestInsert(r, canFail) ==
  /\ r \in DOMAIN ingest
  /\ ingest[r].pc = "insert"
  /\ \E rejected \in StoreErrors(canFail) :
       paper_metrics' = insertMetrics(paper_metrics, ingest[r].metricsToInsert, rejected)
  /\ ingest' = [ingest EXCEPT ![r].pc = "recompute"]
  /\ UNCHANGED <<papers, storeOrder, run, backfill>>
  /\ UNCHANGED notJobs

\* Line 116: computeEngagementScoresForDate(today).
IngestRecompute(r, canFail) ==
  /\ r \in DOMAIN ingest
  /\ ingest[r].pc = "recompute"
  /\ ReadMetrics(r) \/ ScoreMetrics(r) \/ WriteScore(r, canFail)
  /\ UNCHANGED jobVars

\* backfill, lines 44-94: the next paper, or the recomputation.
backfillNext(job) ==
  [job EXCEPT !.pc = IF job.i < Len(job.papers) THEN "check" ELSE "recompute",
              !.i = job.i + 1, !.existing = noMetric]

\* Lines 16-37: all papers are read, and their citation counts fetched; a
\* failed read throws, no papers return at once.
BackfillReadPapers(canFail) ==
  /\ backfill.pc = "readPapers"
  /\ \E failed \in StoreErrors(canFail) :
       backfill' =
         IF failed
         THEN [backfill EXCEPT !.pc = "failed"]
         ELSE LET S == DOMAIN papers
                  before(a, b) == papers[a] > papers[b]
                  ordered == [i \in 1..Cardinality(S) |->
                                CHOOSE p \in S : Cardinality({q \in S : before(q, p)}) = i - 1]
              IN  [backfill EXCEPT !.pc = IF S = {} THEN "returned" ELSE "check",
                                   !.papers = ordered]
  /\ UNCHANGED <<papers, paper_metrics, storeOrder, run, ingest>>
  /\ UNCHANGED notJobs

\* Lines 45-55: is there a metric of today for the paper?
BackfillCheck(canFail) ==
  /\ backfill.pc = "check"
  /\ \E failed \in StoreErrors(canFail) :
       LET found == IF failed THEN noMetric
                    ELSE existingMetric(paper_metrics, backfill.papers[backfill.i])
       IN  backfill' = [backfill EXCEPT !.pc = IF found # noMetric THEN "update" ELSE "insert",
                                        !.existing = found]
  /\ UNCHANGED <<papers, paper_metrics, storeOrder, run, ingest>>
  /\ UNCHANGED notJobs

\* Lines 56-70: the existing metric gets the citation count fetched for the
\* paper.
BackfillUpdate(canFail) ==
  /\ backfill.pc = "update"
  /\ \E rejected \in StoreErrors(canFail), citationCount \in CiteCounts :
       paper_metrics' =
         IF rejected
         THEN paper_metrics
         ELSE {IF m.id = backfill.existing
               THEN [m EXCEPT !.downloads_7d = citationCount]
               ELSE m : m \in paper_metrics}
  /\ backfill' = backfillNext(backfill)
  /\ UNCHANGED <<papers, storeOrder, run, ingest>>
  /\ UNCHANGED notJobs

\* Lines 71-90: a metric with the citation count is inserted.
BackfillInsert(canFail) ==
  /\ backfill.pc = "insert"
  /\ \E rejected \in StoreErrors(canFail), citationCount \in CiteCounts :
       paper_metrics' =
         insertMetrics(paper_metrics,
                       <<metricData(backfill.papers[backfill.i], citationCount)>>, rejected)
  /\ backfill' = backfillNext(backfill)
  /\ UNCHANGED <<papers, storeOrder, run, ingest>>
  /\ UNCHANGED notJobs

\* Line 94: computeEngagementScoresForDate(today).
BackfillRecompute(canFail) ==
  /\ backfill.pc = "recompute"
  /\ ReadMetrics("B") \/ ScoreMetrics("B") \/ WriteScore("B", canFail)
  /\ UNCHANGED jobVars

\* One ingestion and the backfill at once; requests to the store can fail.
NextIngest ==
  \/ IngestUpsert("A", TRUE)
  \/ IngestCheck("A", TRUE)
  \/ IngestUpdate("A", TRUE)
  \/ IngestInsert("A", TRUE)
  \/ IngestRecompute("A", TRUE)
  \/ BackfillReadPapers(TRUE)
  \/ BackfillCheck(TRUE)
  \/ BackfillUpdate(TRUE)
  \/ BackfillInsert(TRUE)
  \/ BackfillRecompute(TRUE)

SpecIngest == InitIngest /\ [][NextIngest]_vars

\* One ingestion on its own, every request to the store succeeding.
InitIngestAlone ==
  /\ InitJobStore
  /\ \E feed \in Feeds : ingest = [r \in {"A"} |-> NewIngest(feed)]
  /\ backfill = <<>>

NextIngestAlone ==
  \/ IngestUpsert("A", FALSE)
  \/ IngestCheck("A", FALSE)
  \/ IngestUpdate("A", FALSE)
  \/ IngestInsert("A", FALSE)
  \/ IngestRecompute("A", FALSE)

SpecIngestAlone == InitIngestAlone /\ [][NextIngestAlone]_vars

\* Two ingestions at once whose feeds share a paper, every request to the
\* store succeeding but for the reads of a recomputation.
InitOverlap ==
  /\ InitJobStore
  /\ \E feeds \in [Runs -> Feeds] :
       /\ \E r, q \in Runs, i \in 1..2, j \in 1..2 :
            r # q /\ i <= Len(feeds[r]) /\ j <= Len(feeds[q]) /\ feeds[r][i] = feeds[q][j]
       /\ ingest = [r \in Runs |-> NewIngest(feeds[r])]
  /\ backfill = <<>>

NextOverlap ==
  \E r \in Runs :
    \/ IngestUpsert(r, FALSE)
    \/ IngestCheck(r, FALSE)
    \/ IngestUpdate(r, FALSE)
    \/ IngestInsert(r, FALSE)
    \/ IngestRecompute(r, FALSE)

SpecOverlap == InitOverlap /\ [][NextOverlap]_vars

\* The citation backfill and a run of GET /api/cron/recalculate-scores (its
\* recomputation is run "A") at once, every request to the store succeeding
\* but for the reads of a recomputation, whose failure ends the run as "failed".
InitBackfillRecalc ==
  /\ InitJobStore
  /\ ingest = <<>>
  /\ backfill = NewBackfill

Recalculate(canFail) == ReadMetrics("A") \/ ScoreMetrics("A") \/ WriteScore("A", canFail)

NextBackfillRecalc ==
  \/ BackfillReadPapers(FALSE)
  \/ BackfillCheck(FALSE)
  \/ BackfillUpdate(FALSE)
  \/ BackfillInsert(FALSE)
  \/ BackfillRecompute(FALSE)
  \/ Recalculate(FALSE)

SpecBackfillRecalc == InitBackfillRecalc /\ [][NextBackfillRecalc]_vars

\* The batch of the date as a read of the store returns it now, dates attached.
finalBatch == attachDates(selectMetrics(paper_metrics, today, storeOrder), papers)

\* Every row of the date holds the score that a scoring of the batch now in
\* the store gives it, for some reading of the clock and some outcome of the
\* sort.
ScoresMatchFinalBatch ==
  \E clock \in FirstNow..MaxNow :
    \E sorted \in SortOutcomes(finalBatch) :
      \A j \in DOMAIN sorted :
        storedScore(sorted[j].id) =
          computeEngagementScore(sorted[j].downloads_7d, sorted[j].github_repo_count,
                                 sorted, sorted[j].published_at, clock)

\* ----------------------------------------------------- reading the state
Scored == pc \in {"scored", "rescored"}
Rows == DOMAIN metricsWithDates
citationCount(i) == metricsWithDates[i].downloads_7d
publishedAt(i) == metricsWithDates[i].published_at
SomeCitation == \E i \in Rows : citationCount(i) # 0
AllCitationsZero == \A i \in Rows : citationCount(i) = 0
batchMax == IntMax({citationCount(i) : i \in Rows})
batchMin == IntMin({citationCount(i) : i \in Rows})
InUnit(x) == RLeq(Zero, x) /\ RLeq(x, One)
AllKnown == \A i \in Rows : publishedAt(i) # Absent
PairwiseDistinctDates == \A i, j \in Rows : i # j => publishedAt(i) # publishedAt(j)
IdenticalDates == \A i, j \in Rows : publishedAt(i) = publishedAt(j)
NoneInFuture == \A i \in Rows : publishedAt(i) <= now

\* ------------------------------------------------------------------ claims

\* C1: every score computed for a row of a batch, whatever its size, citation
\* counts, published_at values and scoring time, lies in [0, 1].
ScoresInUnitInterval ==
  Scored => /\ \A i \in DOMAIN updates : InUnit(updates[i])
            /\ \A i \in DOMAIN earlier : InUnit(earlier[i])

\* C1 witness: a batch without citations was scored by the fallback and a row
\* got a score strictly inside the interval.
FallbackScoreInsideInterval ==
  /\ pc = "scored"
  /\ AllCitationsZero
  /\ \E i \in Rows : RLess(Zero, updates[i]) /\ RLess(updates[i], One)

\* C2 (as claimed): in a batch of two or more rows without citations, at
\* least two rows get different scores.
ZeroBatchDifferentiated ==
  (pc = "scored" /\ Len(metricsWithDates) >= 2 /\ AllCitationsZero)
    => \E i, j \in Rows : updates[i] # updates[j]

\* C3: in a batch with a citation, a row with no more citations than another
\* has no higher score than it.
ScoreMonotoneInCitations ==
  (Scored /\ SomeCitation)
    => \A i, j \in Rows :
         citationCount(i) <= citationCount(j) => RLeq(updates[i], updates[j])

\* C3 witness: three rows with three different citation counts were scored,
\* and their scores are strictly ordered like their counts.
ThreeCitationLevelsScored ==
  /\ pc = "scored"
  /\ \E i, j, k \in Rows :
       /\ citationCount(i) < citationCount(j) /\ citationCount(j) < citationCount(k)
       /\ RLess(updates[i], updates[j]) /\ RLess(updates[j], updates[k])

LeastCitedScoresZero ==
  (Scored /\ SomeCitation /\ batchMin # batchMax)
    => \A i \in Rows : citationCount(i) = batchMin => updates[i] = Zero

\* C5 (amended): in such a batch every row with the smallest count has score
\* smallest / largest, which is 0 exactly when the smallest count is 0.
LeastCitedScoresRatio ==
  (Scored /\ SomeCitation /\ batchMin # batchMax)
    => \A i \in Rows :
         citationCount(i) = batchMin
           => /\ updates[i] = Frac(batchMin, batchMax)
              /\ (updates[i] = Zero <=> batchMin = 0)

\* C5 witness: a scored batch whose smallest count is positive and below the
\* largest; the least cited row has a positive score.
PositiveMinimumScored ==
  /\ pc = "scored"
  /\ batchMin > 0
  /\ batchMin < batchMax
  /\ \E i \in Rows : citationCount(i) = batchMin /\ RLess(Zero, updates[i])

RescoringGivesSameScores ==
  pc = "rescored" => updates = earlier

\* C8 (as claimed): in a batch of two or more rows without citations whose
\* published_at values are all known, pairwise distinct and not later than
\* the scoring time, a newer row scores strictly higher than an older one,
\* the newest scores 1 and the oldest scores 0.
RecencyOrdersScores ==
  (pc = "scored" /\ Len(metricsWithDates) >= 2 /\ AllCitationsZero
     /\ AllKnown /\ PairwiseDistinctDates /\ NoneInFuture)
    => /\ \A i, j \in Rows :
            publishedAt(i) > publishedAt(j) => RLess(updates[j], updates[i])
       /\ \A i \in Rows :
            /\ (\A j \in Rows : publishedAt(j) <= publishedAt(i)) => updates[i] = One
            /\ (\A j \in Rows : publishedAt(j) >= publishedAt(i)) => updates[i] = Zero

\* C9 (as claimed): in a batch of n >= 2 rows without citations whose
\* published_at values are all known and identical, the row at index i (from 0) of the
\* sorted batch scores 1 - i / (n - 1).
PositionalScores ==
  (pc = "scored" /\ Len(metricsWithDates) >= 2 /\ AllCitationsZero
     /\ AllKnown /\ IdenticalDates)
    => \A i \in Rows :
         updates[i] = RSub(One, Frac(i - 1, Len(metricsWithDates) - 1))

\* C10: a batch of exactly one row without citations scores 0, whether its
\* published_at is absent or known.
SingleUncitedRowScoresZero ==
  (Scored /\ Len(metricsWithDates) = 1 /\ citationCount(1) = 0)
    => updates = <<Zero>>

\* C10 witness: a single row without citations and with a known published_at
\* was scored 0.
SingleDatedRowScored ==
  /\ pc = "scored"
  /\ Len(metricsWithDates) = 1
  /\ citationCount(1) = 0
  /\ publishedAt(1) # Absent
  /\ updates = <<Zero>>

\* C12 (as claimed): normalize returns (value - min) / (max - min) whenever
\* max > min, and 0 when max = min or max = 0.
NormalizeAsClaimed ==
  normResult # <<>>
    => /\ normArgs.max > normArgs.min
            => normResult = Frac(normArgs.value - normArgs.min, normArgs.max - normArgs.min)
       /\ (normArgs.max = normArgs.min \/ normArgs.max = 0) => normResult = Zero

\* C12 (amended): normalize returns (value - min) / (max - min) whenever
\* max > min and max # 0, and 0 when max = min or max = 0; with max = 0 > min
\* the result is 0.
NormalizeZeroMaxFirst ==
  normResult # <<>>
    => /\ (normArgs.max > normArgs.min /\ normArgs.max # 0)
            => normResult = Frac(normArgs.value - normArgs.min, normArgs.max - normArgs.min)
       /\ (normArgs.max = normArgs.min \/ normArgs.max = 0) => normResult = Zero

\* C12 witness: normalize was called with max = 0 > min and a value above min,
\* and returned 0.
NormalizeCalledWithZeroMax ==
  /\ normResult = Zero
  /\ normArgs.max = 0
  /\ normArgs.min < 0
  /\ normArgs.value > normArgs.min

\* C20: two batches with the same paper ids and the same citation counts, at
\* least one count nonzero, give every paper the same score, whatever the
\* published_at values, the order of the rows and the time of the scoring.
PrimaryScoreIgnoresDatesOrderAndTime ==
  (/\ pairSecond # <<>>
   /\ \E i \in DOMAIN pairBatch : pairBatch[i].downloads_7d > 0)
    => /\ DOMAIN pairSecond = {pairBatch[i].id : i \in DOMAIN pairBatch}
       /\ DOMAIN pairFirst = DOMAIN pairSecond
       /\ \A id \in DOMAIN pairSecond : pairSecond[id] = pairFirst[id]

\* C20 witness: a batch with a nonzero count was scored again after dates,
\* order and time had all changed, and a paper scored strictly between 0 and 1.
CitedBatchScoredAgainAfterChanges ==
  /\ pairSecond # <<>>
  /\ pairVaried = {"published_at", "order", "time"}
  /\ \E id \in DOMAIN pairSecond : RLess(Zero, pairSecond[id]) /\ RLess(pairSecond[id], One)

\* C17: fetchCitationCount never throws and always returns a number: the
\* citation count of a successful response that carries one, 0 in every other
\* outcome (fetch rejected, 404, 429, another error status, a body that is not
\* an object or has no count).
FetchCitationCountReturnsNumber ==
  \A id \in DOMAIN calls :
    /\ calls[id].pc # "thrown"
    /\ calls[id].pc = "returned"
         => /\ calls[id].result \in Nat
            /\ calls[id].result =
                 IF ok(calls[id].status) /\ calls[id].data.kind = "object" /\ calls[id].data.has
                 THEN calls[id].data.citationCount
                 ELSE 0

\* C17 witness: of two calls of one batch, one returned 0 after an error
\* status and the other returned the positive count of its response.
FetchReturnedZeroAndCount ==
  \E a, b \in DOMAIN calls :
    /\ calls[a].pc = "returned" /\ calls[a].status = 500 /\ calls[a].result = 0
    /\ calls[b].pc = "returned" /\ calls[b].status = 200 /\ calls[b].result = MaxCite

\* C19: with P the number of metrics of the last 7 days with a score above 0,
\* risingPapers of a successful GET /api/diff is exactly ceil(0.1 * P) metrics
\* of the last 7 days, each listed once, all with a score above 0, and none of
\* the metrics left out scores higher than one that is listed; it is empty
\* when P = 0.
RisingPapersAreTopTenth ==
  (diffResponse # <<>> /\ diffResponse.status = 200)
    => LET P == Cardinality(PositiveInWindow)
       IN  /\ Len(diffResponse.risingPapers) = Cardinality(Rising)
           /\ 10 * Cardinality(Rising) >= P
           /\ 10 * (Cardinality(Rising) - 1) < P
           /\ Rising \subseteq PositiveInWindow
           /\ \A m \in Rising : \A q \in InWindow \ Rising :
                RLeq(q.engagement_score, m.engagement_score)
           /\ P = 0 => diffResponse.risingPapers = <<>>

\* C19 witness: eleven metrics of the window have a positive score, beside
\* zero-score rows and a row before the window, and two of them were returned,
\* while more than two share the top score.
TwoRisingOfEleven ==
  /\ diffResponse # <<>>
  /\ diffResponse.status = 200
  /\ Cardinality(PositiveInWindow) = 11
  /\ Len(diffResponse.risingPapers) = 2
  /\ Cardinality({m \in InWindow : m.engagement_score = One}) > 2
  /\ InWindow # PositiveInWindow
  /\ \E i \in DOMAIN diffTable : diffTable[i].snapshot_date < -DaysInWindow

\* C18: GET /api/papers with minScore > 0 returns a paper if and only if it
\* matches the date and category filter, has at least one metric, and the score
\* of its metric with the latest snapshot_date is at least minScore; a returned
\* paper appears once and carries that latest metric.
PapersFilteredByLatestScore ==
  (getResponse # <<>> /\ getResponse.status = 200 /\ RLess(Zero, getRequest.minScore))
    => \A id \in PaperIds :
         LET paper == papersJoined[id]
             rows == {paper.paper_metrics[i] : i \in DOMAIN paper.paper_metrics}
             newest == {m \in rows : \A q \in rows : q.snapshot_date <= m.snapshot_date}
             places == {i \in DOMAIN getResponse.papers : getResponse.papers[i].id = id}
         IN  /\ places # {}
                  <=> /\ paper.published_at >= dateFilter(getRequest)
                      /\ getRequest.category = NoParam \/ getRequest.category \in paper.categories
                      /\ \E m \in newest : RLeq(getRequest.minScore, m.engagement_score)
             /\ Cardinality(places) <= 1
             /\ \A i \in places :
                  \E m \in newest :
                    /\ getResponse.papers[i].metrics.defined
                    /\ getResponse.papers[i].metrics.snapshot_date = m.snapshot_date
                    /\ getResponse.papers[i].metrics.engagement_score = m.engagement_score

\* C18 witness: one paper was returned whose latest metric is not the first of
\* its array and whose older metric scores below minScore, and the other paper,
\* matching the filter too, was left out because its latest metric scores below
\* minScore while its older one does not.
LatestMetricDecidedBoth ==
  /\ getResponse # <<>>
  /\ getResponse.status = 200
  /\ Len(getResponse.papers) = 1
  /\ \E id \in PaperIds :
       /\ getResponse.papers[1].id = id
       /\ Len(papersJoined[id].paper_metrics) = 2
       /\ papersJoined[id].paper_metrics[1].engagement_score = Zero
       /\ papersJoined[id].paper_metrics[1].snapshot_date < papersJoined[id].paper_metrics[2].snapshot_date
  /\ \E id \in PaperIds :
       /\ getResponse.papers[1].id # id
       /\ matchesQuery(papersJoined[id], getRequest)
       /\ \E i \in DOMAIN papersJoined[id].paper_metrics :
            papersJoined[id].paper_metrics[i].engagement_score = One

WriteFailuresAreIsolated ==
  /\ run["A"].pc = "failed" => run["A"].attempted = {}
  /\ run["A"].pc = "done"
       => /\ run["A"].attempted = {run["A"].metrics[i].id : i \in DOMAIN run["A"].metrics}
          /\ \A j \in DOMAIN run["A"].updates :
               run["A"].updates[j].id \notin run["A"].rejected
                 => storedScore(run["A"].updates[j].id) = run["A"].updates[j].engagement_score

\* C13 witness: the run returned after the first write was rejected and a later
\* one was accepted and stored a score above 0.
RunFinishedAfterRejectedWrite ==
  /\ run["A"].pc = "done"
  /\ Len(run["A"].updates) > 1
  /\ run["A"].updates[1].id \in run["A"].rejected
  /\ \E id \in run["A"].attempted \ run["A"].rejected : RLess(Zero, storedScore(id))

\* C14: when the store holds no row of the snapshot date, the only step of a
\* run is its read of the rows, after which it has returned (or the read
\* itself failed); it issues no write and the store stays as it is.
EmptyBatchIsNoOp ==
  [][\A r \in Runs :
       (todaysMetrics = {} /\ run'[r] # run[r])
         => /\ run[r].pc = "idle"
            /\ run'[r].pc \in {"done", "failed"}
            /\ run'[r].attempted = {}
            /\ paper_metrics' = paper_metrics
            /\ papers' = papers]_vars

\* C14 witness: a run has returned from a store that holds a row of an earlier
\* day and none of the snapshot date.
ReturnedFromEmptyBatch ==
  /\ run["A"].pc = "done"
  /\ todaysMetrics = {}
  /\ paper_metrics # {}

\* C15: when two recomputations of a date with unchanged signals, one of them
\* a nonzero citation count, have both returned, in whatever order their reads
\* and writes took place, every stored score of the date is the score the
\* scorer computes for the row from the batch.
ConcurrentRunsStoreComputedScores ==
  (/\ \A r \in Runs : run[r].pc = "done"
   /\ \E m \in todaysMetrics : m.downloads_7d > 0)
    => LET batch == attachDates(selectMetrics(paper_metrics, today, storeOrder), papers)
       IN  \A i \in DOMAIN batch :
             batch[i].engagement_score =
               computeEngagementScore(batch[i].downloads_7d, batch[i].github_repo_count,
                                      batch, batch[i].published_at, FirstNow)

\* C15 witness: both recomputations have returned, and the rows of the date
\* hold the scores 1/2 and 1.
BothRunsStoredScores ==
  /\ \A r \in Runs : run[r].pc = "done"
  /\ {m.engagement_score : m \in todaysMetrics} = {Half, One}

\* C16: whatever the ingestion, the backfill and their recomputations do, and
\* in whatever order, the table holds at most one row for a paper and a
\* snapshot date.
OneMetricPerPaperAndDate ==
  \A m, q \in paper_metrics :
    (m.paper_id = q.paper_id /\ m.snapshot_date = q.snapshot_date) => m = q

\* C16 witness: the ingestion found no metric of today for either paper and
\* has passed its insert of both, the backfill has inserted a metric with a
\* citation count for one of them in between, and the table holds that one row
\* for the paper and none for the other.
InsertAfterConcurrentInsert ==
  /\ ingest["A"].pc = "recompute"
  /\ Len(ingest["A"].metricsToInsert) = 2
  /\ \E p \in PaperIds :
       /\ {m.downloads_7d : m \in {q \in paper_metrics : q.paper_id = p}} = {MaxCite \div 2}
       /\ \A m \in paper_metrics : m.paper_id = p
  /\ backfill.pc # "readPapers"

RecencyScoreIsOwnWeight ==
  LET weights == {recencyScore(publishedAt(i), now) : i \in Rows}
  IN  (pc = "rescored" /\ AllCitationsZero /\ RMin(weights) # RMax(weights))
        => \A i \in Rows :
             /\ updates[i] = normalize(recencyScore(publishedAt(i), now),
                                       RMin(weights), RMax(weights))
             /\ publishedAt(i) = Absent => updates[i] = Zero

\* C22 (as claimed): when the store returns the rows of the same batch (same
\* ids, citation counts, published_at values and scoring time) in another
\* order, the recomputation gives every paper the same score as before,
\* batches with tied or absent published_at included.
ScoresIndependentOfRowOrder ==
  (pairSecond # <<>> /\ pairVaried = {"order"})
    => \A id \in DOMAIN pairSecond : pairSecond[id] = pairFirst[id]

\* C23: once a run has returned after successful reads it has issued exactly
\* one score write for every row its read returned, keyed by the id of that
\* row and carrying the score computed for that row against the whole sorted
\* batch; a run that threw has issued none, so no run writes part of a batch.
FullRewrite ==
  /\ run["A"].pc = "failed" => run["A"].attempted = {} /\ run["A"].next = 1
  /\ run["A"].pc = "done"
       => /\ run["A"].next = Len(run["A"].metrics) + 1
          /\ run["A"].attempted = {run["A"].metrics[i].id : i \in DOMAIN run["A"].metrics}
          /\ \E clock \in FirstNow..MaxNow :
               \E sorted \in SortOutcomes(attachDates(run["A"].metrics, papers)) :
                 /\ DOMAIN run["A"].updates = DOMAIN sorted
                 /\ \A j \in DOMAIN sorted :
                      /\ run["A"].updates[j].id = sorted[j].id
                      /\ run["A"].updates[j].engagement_score =
                           computeEngagementScore(sorted[j].downloads_7d,
                                                  sorted[j].github_repo_count,
                                                  sorted, sorted[j].published_at, clock)

\* C23 witness: a run over MaxRows rows with different citation counts has
\* returned, every write accepted, and a row holds a score strictly between
\* 0 and 1.
WholeBatchRewritten ==
  /\ run["A"].pc = "done"
  /\ Len(run["A"].metrics) = MaxRows
  /\ Cardinality(run["A"].attempted) = MaxRows
  /\ run["A"].rejected = {}
  /\ \E m \in todaysMetrics :
       RLess(Zero, m.engagement_score) /\ RLess(m.engagement_score, One)

\* C24: a step of a recomputation for a date changes nothing in the store
\* but the engagement_score of rows of that date: no row is added or removed,
\* every row keeps its id, paper, date, citation and repository counts, a row
\* of another date stays as it is, and the papers table stays as it is.
RecomputationFrame ==
  [][/\ papers' = papers
     /\ {m.id : m \in paper_metrics'} = {m.id : m \in paper_metrics}
     /\ Cardinality(paper_metrics') = Cardinality(paper_metrics)
     /\ \A m \in paper_metrics :
          \E n \in paper_metrics' :
            /\ n = [m EXCEPT !.engagement_score = n.engagement_score]
            /\ m.snapshot_date # today => n = m]_vars

\* C24 witness: a run has returned from a store that holds a row of an
\* earlier day, still with its score 1, and changed the score of a row of the
\* snapshot date.
ScoresOfDateRewritten ==
  /\ run["A"].pc = "done"
  /\ \E m \in paper_metrics : m.snapshot_date # today /\ m.engagement_score = One
  /\ \E m \in todaysMetrics : m.engagement_score # Zero

\* C28: when the read of the rows of the date or the read of the publish dates
\* of their papers fails, the run throws before it has issued any score
\* write, every row of the store holds the score it held before the run, and
\* GET /api/cron/recalculate-scores answers with status 500 and ok: false.
ReadFailureLeavesScoresUntouched ==
  run["A"].pc = "failed"
    => /\ run["A"].attempted = {}
       /\ run["A"].next = 1
       /\ run["A"].updates = <<>>
       /\ \A m \in paper_metrics :
            m.engagement_score = IF m.snapshot_date = today THEN Zero ELSE One
       /\ recalculateScoresResponse(run["A"].pc).status = 500
       /\ recalculateScoresResponse(run["A"].pc).ok = FALSE

\* C28 witness: the rows of the date were read, MaxRows of them with a
\* citation, and the read of the publish dates failed.
PublishDateReadFailed ==
  /\ run["A"].pc = "failed"
  /\ Len(run["A"].metrics) = MaxRows
  /\ \E m \in todaysMetrics : m.downloads_7d > 0

\* C29: during fetchCitationCountsBatch at most batchSize calls of
\* fetchCitationCount are in flight at any moment; a batch is started, and
\* the function waits between batches or returns, only when every call of the
\* batch before has returned; the returned Map has an entry for every
\* requested id; and for every list of ids the function eventually returns.
BatchedCitationFetching ==
  /\ [](/\ Cardinality(inFlight) <= batchSize
        /\ Cardinality(DOMAIN calls) <= batchSize
        /\ fetchPc \in {"loop", "delay", "returned"}
             => \A id \in DOMAIN calls : calls[id].pc = "returned"
        /\ fetchPc = "returned"
             => DOMAIN results = {arxivIds[k] : k \in DOMAIN arxivIds}
        /\ fetchPc # "thrown")
  /\ <>(fetchPc = "returned")

\* C29 witness: a list of MaxIds ids, more than one batch, has been fetched
\* and the function returned a Map with a count above 0.
SeveralBatchesFetched ==
  /\ fetchPc = "returned"
  /\ Len(arxivIds) = MaxIds
  /\ batchSize < MaxIds
  /\ Cardinality(DOMAIN results) = MaxIds
  /\ \E id \in DOMAIN results : results[id] > 0

\* C25: in an ingestion on its own with no failure of the store, the
\* recomputation starts only after the loop over the feed (every update of an
\* existing metric) and the batch insert are over; when the run has returned,
\* every paper of the feed has a row of today and every row of today holds the
\* score the scorer computes for it from the batch then in the store.
IngestionEndsConsistent ==
  /\ run["A"].pc # "idle"
       => /\ ingest["A"].pc = "recompute"
          /\ ingest["A"].i = Len(ingest["A"].feed) + 1
  /\ run["A"].pc = "done"
       => /\ \A k \in DOMAIN ingest["A"].feed :
               \E m \in todaysMetrics : m.paper_id = ingest["A"].feed[k]
          /\ ScoresMatchFinalBatch

\* C25 witness: an ingestion that reset the existing metric of one paper and
\* inserted a metric for another has returned, and a row of today holds a
\* score other than the placeholder.
IngestionReturnedWithScores ==
  /\ ingest["A"].pc = "recompute"
  /\ run["A"].pc = "done"
  /\ Len(ingest["A"].feed) = 2
  /\ Len(ingest["A"].metricsToInsert) = 1
  /\ Cardinality(todaysMetrics) = 2
  /\ \E m \in todaysMetrics : m.engagement_score # Zero

\* C26 (as claimed): when the backfill, which updates the citation counts of
\* today and then recomputes, and another recomputation of today have both
\* finished, interleaved in any way and with no failure of the store, every
\* row of today holds the score the scorer computes from the counts then in
\* the store.
NoStaleScoresAfterQuiescence ==
  (backfill.pc = "recompute" /\ run["B"].pc = "done" /\ run["A"].pc = "done")
    => ScoresMatchFinalBatch

\* C27 (as claimed): when two ingestions whose feeds share a paper have both
\* finished, interleaved in any way, every paper that either of them upserted
\* has a metric of today.
NoMetricLostByOverlappingIngestions ==
  (\A r \in Runs : ingest[r].pc = "recompute" /\ run[r].pc \in {"done", "failed"})
    => \A r \in Runs :
         \A k \in DOMAIN ingest[r].feed :
           \E m \in todaysMetrics : m.paper_id = ingest[r].feed[k]

====
